---- MODULE Spec2Model ----
(***************************************************************************)
(* Device inventory REST service (Backend/app/routes/devices.py).          *)
(*                                                                         *)
(* The state is the MongoDB collection of device documents, the unique     *)
(* index on "name" (created only by db.get_mongo_collection), and the      *)
(* requests in flight.  Every storage call (find_one, insert_one,          *)
(* update_one, delete_one) is one atomic step; the code of a handler       *)
(* between two storage calls runs inside the step of the call it leads to. *)
(***************************************************************************)
EXTENDS Integers, Sequences, FiniteSets, TLC

VARIABLES
    store,      \* the collection: documents in insertion order
    uniqIndex,  \* TRUE once the unique index "uniq_name" exists
    nextId,     \* the next _id the storage layer hands out
    req,        \* per client: the request it runs and the response it got
    nreq,       \* number of requests received so far
    limit       \* number of requests the run goes up to

vars == <<store, uniqIndex, nextId, req, nreq, limit>>

\* ---------------------------------------------------------------- bounds
MaxRequests == 3

Clients == {"c1", "c2"}

\* ------------------------------------------------------------ JSON values
\* A JSON value is its kind and, for a string, its text.  A key that the
\* payload does not hold has kind "absent".
J(k, v) == [kind |-> k, val |-> v]
JStr(v) == J("str", v)
Absent == J("absent", "")
JNull == J("null", "")
JNum == J("num", "")
JBool == J("bool", "")
JArray == J("array", "")
JObject == J("object", "")

Payload(n, ip, t, loc) == [name |-> n, ip_address |-> ip, type |-> t, location |-> loc]

\* request.get_json(silent=True) or {}: a body that is not JSON is {}
EmptyPayload == Payload(Absent, Absent, Absent, Absent)

\* ------------------------------------------------------------- validators
RECURSIVE FilterSeq(_, _)
FilterSeq(s, keep) ==
    IF s = <<>> THEN <<>>
    ELSE IF Head(s) \in keep THEN <<Head(s)>> \o FilterSeq(Tail(s), keep)
    ELSE FilterSeq(Tail(s), keep)

\* field not in payload or payload.get(field) in (None, "")
is_missing(payload, field) ==
    \/ payload[field].kind = "absent"
    \/ payload[field].kind = "null"
    \/ payload[field].kind = "str" /\ payload[field].val = ""

MissingMsg(field) ==
    CASE field = "name" -> "Missing required field: name"
      [] field = "ip_address" -> "Missing required field: ip_address"
      [] field = "type" -> "Missing required field: type"
      [] field = "location" -> "Missing required field: location"

TypeMsg == "Field 'type' must be one of: Router, Switch, Server"

allowed_types == {"Router", "Switch", "Server"}

\* the loop over the required fields: one entry per missing field, in order
missing_errors(payload, required) ==
    LET miss == FilterSeq(required, {f \in DOMAIN payload : is_missing(payload, f)})
    IN [i \in 1..Len(miss) |-> MissingMsg(miss[i])]

\* payload.get("type") not in allowed_types hashes the value: a list or a
\* dict is unhashable and the test raises TypeError
type_check_raises(payload) ==
    payload.type.kind \in {"array", "object"}

type_errors(payload) ==
    IF /\ payload.type.kind # "absent"
       /\ ~(payload.type.kind = "str" /\ payload.type.val \in allowed_types)
    THEN <<TypeMsg>> ELSE <<>>

validate(payload, required) ==
    IF type_check_raises(payload)
    THEN [raised |-> TRUE, errors |-> <<>>]
    ELSE [raised |-> FALSE,
          errors |-> missing_errors(payload, required) \o type_errors(payload)]

validate_device_create(payload) ==
    validate(payload, <<"name", "ip_address", "type", "location">>)

validate_device_update(payload) ==
    validate(payload, <<"ip_address", "type", "location">>)

\* ---------------------------------------------------------------- storage
\* A stored document: the four device fields and the _id MongoDB adds.
Document(id, device) ==
    [_id |-> id, name |-> device.name, ip_address |-> device.ip_address,
     type |-> device.type, location |-> device.location]

\* find_one's result when no document matches
None == Document(0, EmptyPayload)

\* positions of the documents matching the filter {"name": nameval}
matching(coll, nameval) == {i \in 1..Len(coll) : coll[i].name = nameval}

first_match(coll, nameval) ==
    CHOOSE i \in matching(coll, nameval) : \A j \in matching(coll, nameval) : i <= j

find_one(coll, nameval) ==
    IF matching(coll, nameval) = {} THEN None ELSE coll[first_match(coll, nameval)]

\* the unique index rejects a second document with the same name
duplicate_key(coll, index, doc) == index /\ matching(coll, doc.name) # {}

insert_one(coll, doc) == Append(coll, doc)

\* update_one(filter, {"$set": fields}): the first match gets the fields;
\* no match changes nothing and raises nothing
update_one(coll, nameval, fields) ==
    IF matching(coll, nameval) = {} THEN coll
    ELSE LET i == first_match(coll, nameval)
         IN [coll EXCEPT ![i] =
                [f \in DOMAIN coll[i] |->
                    IF f \in DOMAIN fields THEN fields[f] ELSE coll[i][f]]]

RemoveAt(s, i) == [k \in 1..(Len(s) - 1) |-> IF k < i THEN s[k] ELSE s[k + 1]]

\* delete_one(filter): removes the first match, reports how many it removed
delete_one(coll, nameval) ==
    IF matching(coll, nameval) = {}
    THEN [coll |-> coll, deleted_count |-> 0]
    ELSE [coll |-> RemoveAt(coll, first_match(coll, nameval)), deleted_count |-> 1]

\* a variant that leaves the _id in the document
pop_id_kept(doc) == doc

\* doc.pop("_id", None)
pop_id(doc) == Payload(doc.name, doc.ip_address, doc.type, doc.location)

NoDuplicateNames(coll) ==
    \A i, j \in 1..Len(coll) : coll[i].name = coll[j].name => i = j

\* -------------------------------------------------------------- responses
\* The body of a response: the kind of its JSON value, the keys of a JSON
\* object, under the key "error" the values of "code" and "message", and the
\* value of the key "status".
Body(kind, keys, code, message) ==
    [kind |-> kind, keys |-> keys, code |-> code, message |-> message,
     status |-> Absent]

NoBody == Body("none", {}, Absent, Absent)

\* rid numbers the requests in the order the service receives them; calls
\* lists the storage calls the request has made, fault names the call that
\* raised, opened and closed count the MongoClient objects it created and
\* closed, env is what the health check met
Idle ==
    [rid |-> 0, op |-> "none", name |-> "", payload |-> EmptyPayload,
     pc |-> "idle", status |-> 0, errors |-> <<>>, doc |-> EmptyPayload,
     list |-> <<>>, body |-> NoBody, calls |-> <<>>, fault |-> "",
     opened |-> 0, closed |-> 0, env |-> ""]

Request(rid, op, name, payload) ==
    [rid |-> rid, op |-> op, name |-> name, payload |-> payload,
     pc |-> "start", status |-> 0, errors |-> <<>>, doc |-> EmptyPayload,
     list |-> <<>>, body |-> NoBody, calls |-> <<>>, fault |-> "",
     opened |-> 0, closed |-> 0, env |-> ""]

\* str(code)
code_str(code) ==
    CASE code = 400 -> "400"
      [] code = 404 -> "404"
      [] code = 409 -> "409"
      [] code = 500 -> "500"

\* a variant that puts the code into the envelope as a number
error_numeric_code(r, code, message) ==
    [r EXCEPT !.pc = "done", !.status = code, !.errors = message,
              !.body = Body("object", {"error"}, JNum, JStr(message))]

\* _error(code, message): the error envelope and the status
error(r, code, message) ==
    [r EXCEPT !.pc = "done", !.status = code, !.errors = message,
              !.body = Body("object", {"error"}, JStr(code_str(code)), JStr(message))]

\* jsonify(obj), code
respond(r, code, obj) ==
    [r EXCEPT !.pc = "done", !.status = code, !.doc = obj,
              !.body = Body("object", DOMAIN obj, Absent, Absent)]

\* jsonify(normalized), 200
respond_list(r, code, devices) ==
    [r EXCEPT !.pc = "done", !.status = code, !.list = devices,
              !.body = Body("array", {}, Absent, Absent)]

\* return "", 204
respond_empty(r, code) ==
    [r EXCEPT !.pc = "done", !.status = code, !.body = Body("text", {}, Absent, Absent)]

\* _get_collection(): MongoClient(MONGO_URI), which nothing closes
get_collection(r) == [r EXCEPT !.opened = @ + 1]

\* the request makes the storage call `call`
calling(r, call) == [r EXCEPT !.calls = Append(@, call)]

NotFound == <<"Device not found">>
Conflict == <<"Device name already exists">>
InternalError(exc) == <<"Internal server error", exc>>

\* a variant without the except clause: the exception leaves the handler
on_exception_escapes(r, exc) == [r EXCEPT !.pc = "crashed"]

\* except Exception as exc: return _error(500, ...)
on_exception(r, exc) == error(r, 500, InternalError(exc))

\* ----------------------------------------------------------------- inputs
Names == {"r1", "r2"}

Ip1 == JStr("192.168.1.1")
Ip2 == JStr("10.0.0.1")

\* bodies of POST /devices
CreatePayloads ==
    {Payload(JStr(n), Ip1, JStr("Router"), JStr("DC-A")) : n \in Names}
    \cup {Payload(JStr("r1"), JStr("999.1.1.1"), JStr("Server"), JStr("DC-A")),
          Payload(JStr("r1"), Absent, JStr("Router"), JNull),
          Payload(JStr("r1"), Ip1, JStr("Hub"), JStr("DC-A")),
          Payload(JStr("r1"), Ip1, JArray, JStr("DC-A")),
          Payload(Absent, Ip1, JObject, JStr("DC-A"))}

\* bodies of PUT /devices/{name}
UpdatePayloads ==
    {Payload(Absent, Ip2, JStr("Switch"), JStr("DC-B")),
     Payload(JStr("r2"), Ip2, JStr("Switch"), JStr("DC-B")),
     Payload(Absent, JStr("abc"), JStr("Switch"), JStr("DC-B")),
     Payload(Absent, Ip2, JNum, JStr("DC-B")),
     Payload(Absent, Ip2, JObject, JStr("DC-B")),
     Payload(Absent, JStr(""), JStr("Switch"), Absent)}

\* --------------------------------------------------------------- handlers
\* a client can send a request when it has none in flight
Free(c) == req[c].pc \in {"idle", "done"} /\ nreq < limit

\* the device the create handler stores and echoes
created_device(payload) ==
    Payload(payload.name, payload.ip_address, payload.type, payload.location)

\* a variant that sets every key of the body, a "name" key included
update_fields_whole_body(payload) ==
    IF payload.name.kind = "absent"
    THEN [ip_address |-> payload.ip_address, type |-> payload.type,
          location |-> payload.location]
    ELSE [name |-> payload.name, ip_address |-> payload.ip_address,
          type |-> payload.type, location |-> payload.location]

\* the fields the update handler sets
update_fields(payload) ==
    [ip_address |-> payload.ip_address, type |-> payload.type,
     location |-> payload.location]

\* {"name": name, **update_fields}
updated_device(name, fields) ==
    Payload(JStr(name), fields.ip_address, fields.type, fields.location)

\* a variant without the find_one pre-check
post_check_no_find_one(r, coll) ==
    LET v == validate_device_create(r.payload)
    IN IF v.raised THEN on_exception(r, "TypeError")
       ELSE IF v.errors # <<>> THEN error(r, 400, v.errors)
       ELSE [calling(get_collection(r), "find_one") EXCEPT !.pc = "insert_one"]

\* DevicesList.post up to the insert: validate, then the find_one pre-check
post_check(r, coll) ==
    LET v == validate_device_create(r.payload)
    IN IF v.raised THEN on_exception(r, "TypeError")
       ELSE IF v.errors # <<>> THEN error(r, 400, v.errors)
       ELSE LET q == calling(get_collection(r), "find_one")
            IN IF find_one(coll, r.payload.name) # None THEN error(q, 409, Conflict)
               ELSE [q EXCEPT !.pc = "insert_one"]

post_find_one(c) ==
    /\ Free(c)
    /\ \E payload \in CreatePayloads :
          req' = [req EXCEPT ![c] = post_check(Request(nreq + 1, "post", "", payload), store)]
    /\ nreq' = nreq + 1
    /\ UNCHANGED <<store, uniqIndex, nextId, limit>>

\* DevicesList.post from insert_one to the response
post_insert_one(c) ==
    /\ req[c].op = "post" /\ req[c].pc = "insert_one"
    /\ LET device == created_device(req[c].payload)
           doc == Document(nextId, device)
       IN IF duplicate_key(store, uniqIndex, doc)
          THEN /\ req' = [req EXCEPT ![c] =
                            on_exception(calling(@, "insert_one"), "DuplicateKeyError")]
               /\ UNCHANGED <<store, nextId, limit>>
          ELSE /\ store' = insert_one(store, doc)
               /\ nextId' = nextId + 1
               /\ req' = [req EXCEPT ![c] = respond(calling(@, "insert_one"), 201, device)]
    /\ UNCHANGED <<uniqIndex, nreq, limit>>

\* the list of DevicesList.get: every document, its _id popped
normalized(coll) == [i \in 1..Len(coll) |-> pop_id(coll[i])]

\* DevicesList.get
list_find(c) ==
    /\ Free(c)
    /\ req' = [req EXCEPT ![c] =
                 respond_list(calling(get_collection(Request(nreq + 1, "list", "", EmptyPayload)),
                                      "find"),
                              200, normalized(store))]
    /\ nreq' = nreq + 1
    /\ UNCHANGED <<store, uniqIndex, nextId, limit>>

\* DeviceDetail.get
get_result(r, coll) ==
    LET doc == find_one(coll, JStr(r.name))
        q == calling(get_collection(r), "find_one")
    IN IF doc = None THEN error(q, 404, NotFound)
       ELSE respond(q, 200, pop_id(doc))

get_find_one(c) ==
    /\ Free(c)
    /\ \E name \in Names :
          req' = [req EXCEPT ![c] = get_result(Request(nreq + 1, "get", name, EmptyPayload), store)]
    /\ nreq' = nreq + 1
    /\ UNCHANGED <<store, uniqIndex, nextId, limit>>

\* DeviceDetail.put up to the update: validate, then the existence check
put_check(r, coll) ==
    LET v == validate_device_update(r.payload)
    IN IF v.raised THEN on_exception(r, "TypeError")
       ELSE IF v.errors # <<>> THEN error(r, 400, v.errors)
       ELSE LET q == calling(get_collection(r), "find_one")
            IN IF find_one(coll, JStr(r.name)) = None THEN error(q, 404, NotFound)
               ELSE [q EXCEPT !.pc = "update_one"]

put_find_one(c) ==
    /\ Free(c)
    /\ \E name \in Names, payload \in UpdatePayloads :
          req' = [req EXCEPT ![c] = put_check(Request(nreq + 1, "put", name, payload), store)]
    /\ nreq' = nreq + 1
    /\ UNCHANGED <<store, uniqIndex, nextId, limit>>

\* DeviceDetail.put from update_one to the response
put_update_one(c) ==
    /\ req[c].op = "put" /\ req[c].pc = "update_one"
    /\ LET fields == update_fields(req[c].payload)
       IN /\ store' = update_one(store, JStr(req[c].name), fields)
          /\ req' = [req EXCEPT ![c] =
                       respond(calling(@, "update_one"), 200,
                               updated_device(req[c].name, fields))]
    /\ UNCHANGED <<uniqIndex, nextId, nreq, limit>>

\* DeviceDetail.delete up to the delete: the existence check
delete_check(r, coll) ==
    LET q == calling(get_collection(r), "find_one")
    IN IF find_one(coll, JStr(r.name)) = None THEN error(q, 404, NotFound)
       ELSE [q EXCEPT !.pc = "delete_one"]

delete_find_one(c) ==
    /\ Free(c)
    /\ \E name \in Names :
          req' = [req EXCEPT ![c] = delete_check(Request(nreq + 1, "delete", name, EmptyPayload), store)]
    /\ nreq' = nreq + 1
    /\ UNCHANGED <<store, uniqIndex, nextId, limit>>

\* a variant with the test on deleted_count inverted
delete_result_inverted(r, res) ==
    IF res.deleted_count > 0 THEN error(r, 404, NotFound)
    ELSE respond_empty(r, 204)

\* the response of DeviceDetail.delete for delete_one's result
delete_result(r, res) ==
    IF res.deleted_count > 0 THEN respond_empty(r, 204)
    ELSE error(r, 404, NotFound)

\* DeviceDetail.delete from delete_one to the response
delete_delete_one(c) ==
    /\ req[c].op = "delete" /\ req[c].pc = "delete_one"
    /\ LET res == delete_one(store, JStr(req[c].name))
       IN /\ store' = res.coll
          /\ req' = [req EXCEPT ![c] = delete_result(calling(@, "delete_one"), res)]
    /\ UNCHANGED <<uniqIndex, nextId, nreq, limit>>

\* db.get_mongo_collection: create_index(name, unique=True).  Building a
\* unique index over documents that already share a name fails.
get_mongo_collection ==
    /\ ~uniqIndex
    /\ NoDuplicateNames(store)
    /\ uniqIndex' = TRUE
    /\ UNCHANGED <<store, nextId, req, nreq, limit>>

\* ----------------------------------------------------------------- faults
\* a storage call raises: the except clause of the handler answers 500
raises(r, call) ==
    on_exception([calling(r, call) EXCEPT !.fault = call], "StorageFailure")

passes_create(payload) ==
    ~validate_device_create(payload).raised /\ validate_device_create(payload).errors = <<>>

passes_update(payload) ==
    ~validate_device_update(payload).raised /\ validate_device_update(payload).errors = <<>>

\* DevicesList.get when coll.find raises
list_find_raises(c) ==
    /\ Free(c)
    /\ req' = [req EXCEPT ![c] =
                 raises(get_collection(Request(nreq + 1, "list", "", EmptyPayload)), "find")]
    /\ nreq' = nreq + 1
    /\ UNCHANGED <<store, uniqIndex, nextId, limit>>

\* DevicesList.post when coll.find_one raises
post_find_one_raises(c) ==
    /\ Free(c)
    /\ \E payload \in CreatePayloads :
          /\ passes_create(payload)
          /\ req' = [req EXCEPT ![c] =
                       raises(get_collection(Request(nreq + 1, "post", "", payload)), "find_one")]
    /\ nreq' = nreq + 1
    /\ UNCHANGED <<store, uniqIndex, nextId, limit>>

\* DeviceDetail.get when coll.find_one raises
get_find_one_raises(c) ==
    /\ Free(c)
    /\ \E name \in Names :
          req' = [req EXCEPT ![c] =
                    raises(get_collection(Request(nreq + 1, "get", name, EmptyPayload)), "find_one")]
    /\ nreq' = nreq + 1
    /\ UNCHANGED <<store, uniqIndex, nextId, limit>>

\* DeviceDetail.put when coll.find_one raises
put_find_one_raises(c) ==
    /\ Free(c)
    /\ \E name \in Names, payload \in UpdatePayloads :
          /\ passes_update(payload)
          /\ req' = [req EXCEPT ![c] =
                       raises(get_collection(Request(nreq + 1, "put", name, payload)), "find_one")]
    /\ nreq' = nreq + 1
    /\ UNCHANGED <<store, uniqIndex, nextId, limit>>

\* DeviceDetail.delete when coll.find_one raises
delete_find_one_raises(c) ==
    /\ Free(c)
    /\ \E name \in Names :
          req' = [req EXCEPT ![c] =
                    raises(get_collection(Request(nreq + 1, "delete", name, EmptyPayload)), "find_one")]
    /\ nreq' = nreq + 1
    /\ UNCHANGED <<store, uniqIndex, nextId, limit>>

\* insert_one, update_one or delete_one raises: the call has no effect
write_raises(c) ==
    /\ req[c].pc \in {"insert_one", "update_one", "delete_one"}
    /\ req' = [req EXCEPT ![c] = raises(@, req[c].pc)]
    /\ UNCHANGED <<store, uniqIndex, nextId, nreq, limit>>

\* ----------------------------------------------------------------- health
\* what GET /healthz meets: the first step that fails, and how
HealthEnvs ==
    {"ok", "config_error", "client_error", "ping_pymongo_error", "ping_error",
     "find_one_pymongo_error", "find_one_error"}

\* error_response(status_code, code, message)
error_response(r, status_code, code, message) ==
    [r EXCEPT !.pc = "done", !.status = status_code, !.errors = message,
              !.body = Body("object", {"error"}, JStr(code), JStr(message))]

\* the calls Healthz.get makes before it returns or raises
health_calls(env) ==
    CASE env \in {"config_error", "client_error"} -> <<>>
      [] env \in {"ping_pymongo_error", "ping_error"} -> <<"ping">>
      [] OTHER -> <<"ping", "find_one">>

\* a variant without the clause "except Exception": an exception that is
\* no PyMongoError leaves the handler and the framework answers 500
healthz_result_pymongo_only(r, env) ==
    IF env = "config_error"
    THEN error_response(r, 503, "ServiceUnavailable", <<"Configuration error">>)
    ELSE IF env = "client_error"
    THEN error_response(r, 500, "InternalServerError", <<"Unexpected server error.">>)
    ELSE LET q == [r EXCEPT !.opened = @ + 1, !.closed = @ + 1, !.calls = health_calls(env)]
         IN IF env = "ok"
            THEN [q EXCEPT !.pc = "done", !.status = 200,
                           !.body = [Body("object", {"status"}, Absent, Absent)
                                        EXCEPT !.status = JStr("ok")]]
            ELSE IF env \in {"ping_pymongo_error", "find_one_pymongo_error"}
            THEN error_response(q, 503, "ServiceUnavailable", <<"Database connectivity error">>)
            ELSE error_response(q, 500, "InternalServerError", <<"Unexpected server error.">>)

\* Healthz.get: load_mongo_settings, MongoClient, ping, find_one, and the
\* finally clause that closes the client when one was created
healthz_result(r, env) ==
    IF env = "config_error"
    THEN error_response(r, 503, "ServiceUnavailable", <<"Configuration error">>)
    ELSE IF env = "client_error"
    THEN error_response(r, 503, "ServiceUnavailable", <<"Health check failed">>)
    ELSE LET q == [r EXCEPT !.opened = @ + 1, !.closed = @ + 1, !.calls = health_calls(env)]
         IN IF env = "ok"
            THEN [q EXCEPT !.pc = "done", !.status = 200,
                           !.body = [Body("object", {"status"}, Absent, Absent)
                                        EXCEPT !.status = JStr("ok")]]
            ELSE IF env \in {"ping_pymongo_error", "find_one_pymongo_error"}
            THEN error_response(q, 503, "ServiceUnavailable", <<"Database connectivity error">>)
            ELSE error_response(q, 503, "ServiceUnavailable", <<"Health check failed">>)

healthz(c) ==
    /\ Free(c)
    /\ \E env \in HealthEnvs :
          req' = [req EXCEPT ![c] =
                    healthz_result([Request(nreq + 1, "healthz", "", EmptyPayload)
                                        EXCEPT !.env = env], env)]
    /\ nreq' = nreq + 1
    /\ UNCHANGED <<store, uniqIndex, nextId, limit>>

\* ---------------------------------------------------------- specification
Init ==
    /\ store = <<>>
    /\ uniqIndex = FALSE
    /\ nextId = 1
    /\ req = [c \in Clients |-> Idle]
    /\ nreq = 0
    /\ limit = MaxRequests

Next ==
    \/ \E c \in Clients : list_find(c)
    \/ \E c \in Clients : post_find_one(c)
    \/ \E c \in Clients : post_insert_one(c)
    \/ \E c \in Clients : get_find_one(c)
    \/ \E c \in Clients : put_find_one(c)
    \/ \E c \in Clients : put_update_one(c)
    \/ \E c \in Clients : delete_find_one(c)
    \/ \E c \in Clients : delete_delete_one(c)
    \/ get_mongo_collection

Spec == Init /\ [][Next]_vars

\* the device handlers with storage calls that may raise
NextFault ==
    \/ Next
    \/ \E c \in Clients : list_find_raises(c)
    \/ \E c \in Clients : post_find_one_raises(c)
    \/ \E c \in Clients : get_find_one_raises(c)
    \/ \E c \in Clients : put_find_one_raises(c)
    \/ \E c \in Clients : delete_find_one_raises(c)
    \/ \E c \in Clients : write_raises(c)

SpecFault == Init /\ [][NextFault]_vars

\* the device handlers and the health check
NextService ==
    \/ Next
    \/ \E c \in Clients : healthz(c)

SpecService == Init /\ [][NextService]_vars

\* the health check alone
NextHealth == \E c \in Clients : healthz(c)

SpecHealth == Init /\ [][NextHealth]_vars

\* creates and deletes alone, one request further
InitRace ==
    /\ store = <<>>
    /\ uniqIndex = FALSE
    /\ nextId = 1
    /\ req = [c \in Clients |-> Idle]
    /\ nreq = 0
    /\ limit = MaxRequests + 1

NextRace ==
    \/ \E c \in Clients : post_find_one(c)
    \/ \E c \in Clients : post_insert_one(c)
    \/ \E c \in Clients : delete_find_one(c)
    \/ \E c \in Clients : delete_delete_one(c)

SpecRace == InitRace /\ [][NextRace]_vars

\* ----------------------------------------------------- claim vocabulary
\* client c receives its response in this step
Responds(c) == req'[c].pc = "done" /\ req'[c].rid # 0 /\ req'[c] # req[c]

\* client c's request arrives in this step
Arrives(c) == req'[c].rid # req[c].rid

NonEmptyStr(v) == v.kind = "str" /\ v.val # ""

\* the dot-separated parts of the address texts the inputs use, as numbers
\* (-1: not a number)
Octets(text) ==
    CASE text = "192.168.1.1" -> <<192, 168, 1, 1>>
      [] text = "10.0.0.1" -> <<10, 0, 0, 1>>
      [] text = "999.1.1.1" -> <<999, 1, 1, 1>>
      [] OTHER -> <<-1>>

\* fields.IPv4: four dot-separated octets, each 0 to 255
IsIPv4(v) ==
    /\ NonEmptyStr(v)
    /\ Len(Octets(v.val)) = 4
    /\ \A i \in 1..4 : Octets(v.val)[i] \in 0..255

ValidType(v) == v.kind = "str" /\ v.val \in {"Router", "Switch", "Server"}

\* a body DeviceUpdateSchema accepts
ValidUpdate(payload) ==
    /\ IsIPv4(payload.ip_address)
    /\ ValidType(payload.type)
    /\ NonEmptyStr(payload.location)

\* a body DeviceCreateSchema accepts
ValidCreate(payload) == NonEmptyStr(payload.name) /\ ValidUpdate(payload)

Stored(coll, nameval) == \E i \in 1..Len(coll) : coll[i].name = nameval

StoredNames(coll) == [i \in 1..Len(coll) |-> coll[i].name]

\* ------------------------------------------------------------------ claims
\* C1: in every reachable state at most one stored Device record has any
\* given name.
C1_AtMostOnePerName ==
    \A i \in 1..Len(store) : \A j \in 1..Len(store) :
        i # j => store[i].name # store[j].name

\* C2: a create that passed the find_one pre-check and then finds, at its
\* insert, that a concurrent create has stored the name responds 409 and
\* inserts nothing; a create that finds the name still free responds 201.
C2_CreateRaceOneWinner ==
    [][\A c \in Clients :
          (req[c].op = "post" /\ req[c].pc = "insert_one" /\ Responds(c)) =>
              IF Stored(store, req[c].payload.name)
              THEN req'[c].status = 409 /\ store' = store
              ELSE req'[c].status = 201]_vars

\* C3: a sequential POST of a valid payload whose name is not stored
\* responds 201 with the payload's four fields and stores that record; a
\* POST of a valid payload whose name is stored responds 409.
C3_CreateOnceThenConflict ==
    [][\A c \in Clients :
          /\ (Arrives(c) /\ req'[c].op = "post" /\ ValidCreate(req'[c].payload)) =>
                IF Stored(store, req'[c].payload.name)
                THEN req'[c].pc = "done" /\ req'[c].status = 409 /\ store' = store
                ELSE req'[c].pc = "insert_one"
          /\ (/\ req[c].op = "post" /\ req[c].pc = "insert_one" /\ Responds(c)
              /\ ~Stored(store, req[c].payload.name)) =>
                /\ req'[c].status = 201
                /\ req'[c].doc = req[c].payload
                /\ Len(store') = Len(store) + 1
                /\ SubSeq(store', 1, Len(store)) = store
                /\ pop_id(store'[Len(store')]) = req[c].payload]_vars

C3_Witness ==
    \E c \in Clients : \E d \in Clients :
        /\ req[c].op = "post" /\ req[c].pc = "done" /\ req[c].status = 201
        /\ req[d].op = "post" /\ req[d].pc = "done" /\ req[d].status = 409
        /\ req[d].rid > req[c].rid
        /\ req[d].payload.name = req[c].payload.name
        /\ ValidCreate(req[d].payload)
        /\ \E i \in 1..Len(store) : pop_id(store[i]) = req[c].payload

\* C4: get, update and delete on a name that has no stored record respond
\* 404, whatever the body.
C4_UnknownName404 ==
    [][\A c \in Clients :
          (/\ Arrives(c) /\ req'[c].op \in {"get", "put", "delete"}
           /\ ~Stored(store, JStr(req'[c].name))) =>
              req'[c].pc = "done" /\ req'[c].status = 404]_vars

\* the fields of `required` that the payload lacks (absent, null or ""),
\* in order
MissingFields(payload, required) ==
    FilterSeq(required,
              {f \in DOMAIN payload :
                  payload[f].kind \in {"absent", "null"} \/ payload[f] = JStr("")})

MissingEntries(errors) ==
    FilterSeq(errors, {MissingMsg(f) : f \in {"name", "ip_address", "type", "location"}})

RequiredOf(op) ==
    IF op = "post" THEN <<"name", "ip_address", "type", "location">>
    ELSE <<"ip_address", "type", "location">>

\* C5: a create or update body that lacks some required fields is answered
\* 400 with one "Missing required field" entry per missing field, in the
\* order name, ip_address, type, location.
C5_EveryMissingFieldNamed ==
    \A c \in Clients :
        (/\ req[c].pc = "done" /\ req[c].op \in {"post", "put"}
         /\ MissingFields(req[c].payload, RequiredOf(req[c].op)) # <<>>) =>
            /\ req[c].status = 400
            /\ MissingEntries(req[c].errors) =
                  [i \in 1..Len(MissingFields(req[c].payload, RequiredOf(req[c].op))) |->
                      MissingMsg(MissingFields(req[c].payload, RequiredOf(req[c].op))[i])]

OutsideTypeSet(v) ==
    \/ v.kind \in {"num", "bool", "array", "object"}
    \/ NonEmptyStr(v) /\ v.val \notin {"Router", "Switch", "Server"}

\* C6: a type value outside {Router, Switch, Server}, of any JSON kind, with
\* the other fields valid, is answered 400 by POST and by PUT on an existing
\* name, and the store is not modified.
C6_BadTypeIs400 ==
    [][\A c \in Clients :
          (/\ Arrives(c) /\ req'[c].op \in {"post", "put"}
           /\ OutsideTypeSet(req'[c].payload.type)
           /\ IsIPv4(req'[c].payload.ip_address)
           /\ NonEmptyStr(req'[c].payload.location)
           /\ req'[c].op = "post" => NonEmptyStr(req'[c].payload.name)
           /\ req'[c].op = "put" => Stored(store, JStr(req'[c].name))) =>
              req'[c].pc = "done" /\ req'[c].status = 400 /\ store' = store]_vars

InvalidIp(v) == NonEmptyStr(v) /\ ~IsIPv4(v)

\* C7: an ip_address that is a non-empty string but not a valid IPv4
\* address, with the other fields valid, is answered 400 by POST and PUT
\* (404 at most for a PUT on an unknown name), and no record ever holds such
\* an ip_address.
C7_InvalidIpRejected ==
    /\ \A c \in Clients :
          (/\ req[c].pc = "done" /\ req[c].op \in {"post", "put"}
           /\ InvalidIp(req[c].payload.ip_address)
           /\ ValidType(req[c].payload.type)
           /\ NonEmptyStr(req[c].payload.location)
           /\ req[c].op = "post" => NonEmptyStr(req[c].payload.name)) =>
              \/ req[c].status = 400
              \/ req[c].op = "put" /\ req[c].status = 404
    /\ \A i \in 1..Len(store) : ~InvalidIp(store[i].ip_address)

\* C8: no step of a PUT changes the name of a stored record, and a 200
\* response carries the path parameter as its name, whatever name the body
\* holds.
C8_UpdateKeepsName ==
    [][\A c \in Clients :
          (req'[c].op = "put" /\ req'[c] # req[c]) =>
              /\ StoredNames(store') = StoredNames(store)
              /\ req'[c].status = 200 => req'[c].doc.name = JStr(req'[c].name)]_vars

C8_Witness ==
    \E c \in Clients :
        /\ req[c].op = "put" /\ req[c].pc = "done" /\ req[c].status = 200
        /\ NonEmptyStr(req[c].payload.name)
        /\ req[c].payload.name # JStr(req[c].name)
        /\ \E i \in 1..Len(store) :
              /\ store[i].name = JStr(req[c].name)
              /\ store[i].location = req[c].payload.location

\* C9: a PUT answers 200 only if a record of that name had its ip_address,
\* type and location replaced by the body's, and answers 404 whenever no
\* record has the name when the update is applied.
C9_UpdateAppliesOr404 ==
    [][\A c \in Clients :
          (req'[c].op = "put" /\ Responds(c)) =>
              /\ req'[c].status = 200 =>
                    \E i \in 1..Len(store) :
                        /\ store[i].name = JStr(req'[c].name)
                        /\ Len(store') = Len(store)
                        /\ store'[i].ip_address = req'[c].payload.ip_address
                        /\ store'[i].type = req'[c].payload.type
                        /\ store'[i].location = req'[c].payload.location
              /\ (ValidUpdate(req'[c].payload) /\ ~Stored(store, JStr(req'[c].name))) =>
                    req'[c].status = 404]_vars

\* C10: a DELETE on an existing name answers 200 or 204 and leaves no record
\* of that name, so that a GET of the name answers 404 until it is created
\* again.
C10_DeleteThenGet404 ==
    [][\A c \in Clients :
          /\ (/\ req[c].op = "delete" /\ req[c].pc = "delete_one" /\ Responds(c)
              /\ Stored(store, JStr(req[c].name))) =>
                /\ req'[c].status \in {200, 204}
                /\ ~Stored(store', JStr(req[c].name))
          /\ (Arrives(c) /\ req'[c].op = "get" /\ ~Stored(store, JStr(req'[c].name))) =>
                req'[c].pc = "done" /\ req'[c].status = 404]_vars

\* the device fields of a stored document
DeviceOf(d) ==
    [name |-> d.name, ip_address |-> d.ip_address, type |-> d.type, location |-> d.location]

\* C11: GET /devices answers 200 with exactly the stored records, in
\* insertion order, none carrying _id; GET /devices/{name} on an existing
\* name answers 200 with a record of that name without _id.
C11_ListAndGetWithoutId ==
    [][\A c \in Clients :
          /\ (Arrives(c) /\ req'[c].op = "list") =>
                /\ req'[c].pc = "done" /\ req'[c].status = 200
                /\ req'[c].body.kind = "array"
                /\ Len(req'[c].list) = Len(store)
                /\ \A i \in 1..Len(store) :
                      /\ "_id" \notin DOMAIN req'[c].list[i]
                      /\ req'[c].list[i] = DeviceOf(store[i])
          /\ (Arrives(c) /\ req'[c].op = "get" /\ Stored(store, JStr(req'[c].name))) =>
                /\ req'[c].pc = "done" /\ req'[c].status = 200
                /\ "_id" \notin req'[c].body.keys
                /\ "_id" \notin DOMAIN req'[c].doc
                /\ \E i \in 1..Len(store) :
                      /\ store[i].name = JStr(req'[c].name)
                      /\ req'[c].doc = DeviceOf(store[i])]_vars

C11_Witness ==
    \E c \in Clients : \E d \in Clients :
        /\ req[c].op = "list" /\ req[c].pc = "done" /\ req[c].status = 200
        /\ Len(req[c].list) = 1
        /\ req[d].op = "get" /\ req[d].pc = "done" /\ req[d].status = 200
        /\ req[d].doc = req[c].list[1]

\* the error envelope {"error": {"code": <string>, "message": <string>}}
IsEnvelope(body) ==
    /\ body.kind = "object"
    /\ body.keys = {"error"}
    /\ body.code.kind = "str"
    /\ body.message.kind = "str"

Occurrences(calls, call) == Cardinality({i \in 1..Len(calls) : calls[i] = call})

\* C12: a request one of whose storage calls raised has answered 500 with
\* the error envelope (the fault stays inside the handler), and the failed
\* call is its last call and was made once.
C12_FaultIs500NoRetry ==
    \A c \in Clients :
        req[c].fault # "" =>
            /\ req[c].pc = "done"
            /\ req[c].status = 500
            /\ IsEnvelope(req[c].body)
            /\ req[c].calls # <<>>
            /\ req[c].calls[Len(req[c].calls)] = req[c].fault
            /\ Occurrences(req[c].calls, req[c].fault) = 1

C12_Witness ==
    \E c \in Clients : \E d \in Clients :
        /\ req[c].op = "post" /\ req[c].fault = "insert_one" /\ req[c].status = 500
        /\ req[d].op \in {"list", "get", "put", "delete"}
        /\ req[d].fault # "" /\ req[d].status = 500
        /\ store = <<>>

\* C13: every response of the device and health handlers that is not 2xx
\* has the body {"error": {"code": <string>, "message": <string>}}, and no
\* 2xx response has the key "error".
C13_ErrorEnvelope ==
    \A c \in Clients :
        req[c].pc = "done" =>
            IF req[c].status \in 200..299
            THEN "error" \notin req[c].body.keys
            ELSE IsEnvelope(req[c].body)

C13_Witness ==
    \E c \in Clients : \E d \in Clients :
        /\ req[c].op = "healthz" /\ req[c].pc = "done" /\ req[c].status = 503
        /\ req[d].op \in {"post", "put", "get", "delete"} /\ req[d].pc = "done"
        /\ req[d].status \in {400, 404, 409, 500}

\* C14: no request ends with a MongoClient it created still open.
C14_ConnectionsReleased ==
    \A c \in Clients : req[c].pc = "done" => req[c].closed = req[c].opened

\* C15: GET /healthz answers 200 with {"status": "ok"} exactly when the
\* configuration loads, the ping succeeds and find_one succeeds; in every
\* other case it answers 503 with the error envelope.
C15_HealthOkOr503 ==
    \A c \in Clients :
        req[c].op = "healthz" =>
            /\ req[c].pc = "done"
            /\ IF req[c].env = "ok"
               THEN /\ req[c].status = 200
                    /\ req[c].body.keys = {"status"}
                    /\ req[c].body.status = JStr("ok")
               ELSE /\ req[c].status = 503
                    /\ IsEnvelope(req[c].body)

C15_Witness ==
    \E c \in Clients : \E d \in Clients :
        /\ req[c].op = "healthz" /\ req[c].status = 200
        /\ req[d].op = "healthz" /\ req[d].status = 503
        /\ req[d].env = "find_one_error"

\* C16: a step in which a device request answers 400, 404 or 409 leaves the
\* collection as it is, as does the step in which any request arrives; a 400
\* is answered before any storage call and before _get_collection.
C16_RejectedLeavesStore ==
    [][\A c \in Clients :
          /\ Arrives(c) => store' = store
          /\ (Responds(c) /\ req'[c].status \in {400, 404, 409}) =>
                /\ store' = store
                /\ req'[c].status = 400 => req'[c].calls = <<>> /\ req'[c].opened = 0]_vars

C16_Witness ==
    \E c \in Clients : \E d \in Clients :
        /\ req[c].op = "delete" /\ req[c].pc = "done" /\ req[c].status = 404
        /\ req[c].calls = <<"find_one", "delete_one">>
        /\ req[d].op = "delete" /\ req[d].pc = "done" /\ req[d].status = 204

\* C17: of two DELETE requests for one name that overlap, the one that
\* answers after the other has answered 204 answers 404; a delete whose
\* delete_one removes nothing answers 404 and one that removes a record
\* answers 204.
C17_OneDeleteWins ==
    [][\A c \in Clients : \A d \in Clients :
          /\ (/\ req[d].op = "delete" /\ req[d].pc = "delete_one" /\ Responds(d)
              /\ req[c].op = "delete" /\ req[c].pc = "done" /\ req[c].status = 204
              /\ req[c].name = req[d].name
              /\ req[c].rid > req[d].rid) =>
                req'[d].status = 404
          /\ (req[d].op = "delete" /\ req[d].pc = "delete_one" /\ Responds(d)) =>
                IF Len(store') = Len(store)
                THEN req'[d].status = 404
                ELSE req'[d].status = 204 /\ Len(store') = Len(store) - 1]_vars

====
